---- MODULE Spec2Model ----
(***************************************************************************)
(* scousepy stage 3: the autonomous decomposition of individual spectra    *)
(* (initialise_fitting, autonomous_decomposition, decomposition_method)    *)
(* and the compilation of the solutions found for each pixel               *)
(* (compile_spectra, compilation_method), from src/scousepy/stage_3.py.    *)
(*                                                                         *)
(* Python objects are identified by their position in the heap sequence    *)
(* indivspec (the order in which initialise_fitting creates them); lists   *)
(* of objects are sequences of these references.  A guess vector is        *)
(* abstracted to its np.size; an AIC is an integer number of thousandths.  *)
(***************************************************************************)
EXTENDS Integers, Sequences, FiniteSets

\* ---------------------------------------------------------------- bounds
\* the largest np.size of a guess vector the fitter hands back
MaxGuess == 2
\* the largest number of individual spectra the sampled SAAs hold
MaxSpectra == 2
\* the largest number of completed spectra handed to compile_spectra
MaxCompleted == 3

\* ------------------------------------------------------ python values
\* None stored in a list of object references (indivspec_list[i]=None)
NoneRef == 0
\* guesses_updated of a spectrum that has not been given updated guesses
NoneGuesses == -1
\* the template attribute is the shared pyspeckit template or None
Template == "psktemplate"
NoneTemplate == "None"

\* a model is None or an indivmodel holding an AIC (in thousandths)
NoneModel == [isNone |-> TRUE, AIC |-> 0]
indivmodel(aic) == [isNone |-> FALSE, AIC |-> aic]
AICValues == {12300, 12340, 12344}

\* np.around(AIC, decimals=2): thousandths to hundredths, half to even
Around2(a) ==
    LET q == a \div 10
        r == a % 10
    IN  IF r < 5 THEN q
        ELSE IF r > 5 THEN q + 1
        ELSE IF q % 2 = 0 THEN q ELSE q + 1

\* An attribute that compilation turns from a scalar into a list: d is the
\* nesting depth (0: the scalar v[1]; 1: the list v; 2: the list [v]).
Scalar(x) == [d |-> 0, v |-> <<x>>]
\* the list of the values xs, the last first
ListReversed(xs) ==
    [d |-> 1, v |-> [n \in 1..Len(xs) |-> xs[Len(xs) + 1 - n]]]
\* the list of the values xs
ListOf(xs) == [d |-> 1, v |-> xs]
\* [val], the one-element list built around an attribute value
ListAround(val) == [d |-> val.d + 1, v |-> val.v]

\* np.size: None is a 0-d object array of one element
NpSize(g) == IF g = NoneGuesses THEN 1 ELSE g

\* ------------------------------------------------------------ the SAAs
\* saa.indices_flat, saa.to_be_fit, saa.index and SAA.model.params of one
\* spectral averaging area (the parameters are named by a number)
SAA(index, indices_flat, to_be_fit, params) ==
    [index |-> index, indices_flat |-> indices_flat,
     to_be_fit |-> to_be_fit, params |-> params]

\* A cube of n spectra at most: one coarse SAA over pixel 1 or over pixels
\* 2 and 1, and for the rest fine SAAs over pixel 1; each SAA may or may
\* not be sampled for fitting.
SaaDictsOf(n) ==
    { << << SAA(0, pix, c, 100) >>,
         [j \in 1..(n - Len(pix)) |->
             SAA(j - 1, <<1>>, f[j], 200 + j - 1)] >>
      : pix \in {<<1>>, <<2, 1>>}, c \in BOOLEAN,
        f \in [1..(n - 1) -> BOOLEAN] }

\* the cubes whose spectra are decomposed
SaaDicts == SaaDictsOf(MaxSpectra)

VARIABLES
    saa_dict,                  \* scouseobject.saa_dict, by wsaa position
    njobs,                     \* scouseobject.njobs
    indivspec,                 \* the individual_spectrum objects
    indivspec_list,            \* the spectra still to be fit
    indivspec_list_completed,  \* the spectra whose fitting has ended
    pc,                        \* the position in stage 3
    trend,                     \* the sizes of the guesses of the last batch
    turn,                      \* the parity of the turns of the while loop
    serial,                    \* the same run, batch by batch, in series
    inputlist,                 \* the spectra of the last batch of fits
    results,                   \* the results of the last batch of fits
    indexarr,                  \* the indices of the completed spectra
    indexarr_unique,           \* the unique ones, sorted
    compiled,                  \* the results of compilation_method so far
    i,                         \* the next position of indexarr_unique
    indiv_dict,                \* scouseobject.indiv_dict
    ncall,                     \* the number of the compile_spectra call
    first                      \* what indiv_dict held after the first call

loopvars == <<indivspec_list, trend, turn, njobs, saa_dict, inputlist,
              results>>
compilevars == <<indexarr, indexarr_unique, compiled, i, indiv_dict, ncall,
                 first>>
vars == <<saa_dict, njobs, indivspec, indivspec_list,
          indivspec_list_completed, pc, trend, turn, serial, inputlist,
          results, indexarr, indexarr_unique, compiled, i, indiv_dict, ncall,
          first>>

\* --------------------------------------------------- initialise_fitting
\* individual_spectrum(coordinates, spectrum, index=, saa_dict_index=,
\* saaindex=) followed by the two setattr calls of initialise_fitting
individual_spectrum(index, saa_dict_index, saaindex, template, params) ==
    [index |-> index,
     saa_dict_index |-> Scalar(saa_dict_index),
     saaindex |-> Scalar(saaindex),
     template |-> template,
     guesses_from_parent |-> params,
     guesses_updated |-> NoneGuesses,
     model_from_parent |-> Scalar(NoneModel)]

\* the spectra of one SAA, whether it is to be fit or not
SpectraOfAnySAA(ii, saa, template) ==
    [k \in 1..Len(saa.indices_flat) |->
        individual_spectrum(saa.indices_flat[k], ii, saa.index,
                            template, saa.params)]

\* the spectra of one SAA: the loop over indices_flat
SpectraOfSAA(ii, saa, template) ==
    IF saa.to_be_fit
    THEN [k \in 1..Len(saa.indices_flat) |->
            individual_spectrum(saa.indices_flat[k], ii, saa.index,
                                template, saa.params)]
    ELSE << >>

RECURSIVE SpectraOfDict(_, _, _, _)
\* the loop over the items of one SAA dictionary, from item j on
SpectraOfDict(ii, dict, j, template) ==
    IF j > Len(dict) THEN << >>
    ELSE SpectraOfSAA(ii, dict[j], template)
         \o SpectraOfDict(ii, dict, j + 1, template)

RECURSIVE SpectraFrom(_, _, _)
\* the loop over range(len(scouseobject.wsaa)), from position p on
SpectraFrom(dicts, p, template) ==
    IF p > Len(dicts) THEN << >>
    ELSE SpectraOfDict(p - 1, dicts[p], 1, template)
         \o SpectraFrom(dicts, p + 1, template)

\* gen_template: one template, built once
gen_template == Template

InitialiseFitting ==
    /\ pc = "initialise_fitting"
    /\ indivspec' = SpectraFrom(saa_dict, 1, gen_template)
    /\ indivspec_list' = [k \in 1..Len(indivspec') |-> k]
    /\ serial' = [pending |-> indivspec_list', completed |-> << >>,
                  model |-> [k \in 1..Len(indivspec') |-> NoneModel]]
    /\ pc' = "while"
    /\ UNCHANGED <<saa_dict, njobs, indivspec_list_completed, trend, turn,
                   inputlist, results, compilevars>>

\* ------------------------------------------------- decomposition_method
\* the AIC values of the models the fits end with
FittedAICs == {12300, 12340}

\* the guesses a fit that ends with the AIC a leaves: none, or guesses still
GuessesLeft(a) == IF a = 12300 THEN 0 ELSE MaxGuess

\* What Decomposer.fit_spectrum_from_parent leaves on the decomposer:
\* validfit, the modeldict (its AIC) and guesses_updated, which after a
\* failed fit holds any number of guesses.
FitOutcomes ==
    {[validfit |-> TRUE, AIC |-> a, guesses_updated |-> GuessesLeft(a)]
        : a \in FittedAICs}
    \cup {[validfit |-> FALSE, AIC |-> 0, guesses_updated |-> g]
        : g \in 0..MaxGuess}

\* the updated guesses whenever there are any
GuessesIfAny(spec) ==
    IF NpSize(spec.guesses_updated) < 1
    THEN [from |-> "guesses_from_parent", val |-> spec.guesses_from_parent]
    ELSE [from |-> "guesses_updated", val |-> spec.guesses_updated]

\* the guesses that initiate the fitter
Guesses(spec) ==
    IF NpSize(spec.guesses_updated) <= 1
    THEN [from |-> "guesses_from_parent", val |-> spec.guesses_from_parent]
    ELSE [from |-> "guesses_updated", val |-> spec.guesses_updated]

\* what the decomposer and the fitter are given for the spectrum ref
FitCall(ref, spec) ==
    [indivspec |-> ref, psktemplate |-> spec.template,
     guesses |-> Guesses(spec), guesses_parent |-> spec.guesses_from_parent]

\* [model, decomposer.guesses_updated]
decomposition_method(outcome) ==
    [model |-> IF outcome.validfit THEN indivmodel(outcome.AIC)
               ELSE NoneModel,
     guesses_updated |-> outcome.guesses_updated]

\* --------------------------------------------- autonomous_decomposition
\* the test made on the spectra created, not on those left to fit
WhileSpectraExist(list) == Len(indivspec) # 0

\* while np.size(np.asarray(indivspec_list) != 0.0)
WhileCondition(list) == Len(list) # 0

\* the results in the order of the reversed input list
SerialMapReversed(list, fit) ==
    [k \in 1..Len(list) |->
        decomposition_method(fit[list[Len(list) + 1 - k]])]

\* [decomposition_method(input) for input in inputlist]
SerialMap(list, fit) ==
    [k \in 1..Len(list) |-> decomposition_method(fit[list[k]])]

\* parallel_map(decomposition_method, inputlist, numcores=njobs): the
\* workers end in the given order, the outputs come back in input order
parallel_map(list, fit, order) ==
    LET ended == [n \in 1..Len(list) |->
                    [at |-> order[n],
                     out |-> decomposition_method(fit[list[order[n]]])]]
    IN  [k \in 1..Len(list) |->
            ended[CHOOSE n \in 1..Len(list) : ended[n].at = k].out]

Orders(n) ==
    {p \in [1..n -> 1..n] : \A a, b \in 1..n : p[a] = p[b] => a = b}

\* the same batch handled in series, as a function of the fit outcomes
SerialBatch(s, fit) ==
    LET Ended(t) == fit[t].validfit \/ fit[t].guesses_updated = 0
        Pending(t) == ~Ended(t)
        ended == SelectSeq(s.pending, Ended)
    IN  [pending |-> SelectSeq(s.pending, Pending),
         completed |-> s.completed \o ended,
         model |-> [t \in DOMAIN s.model |->
                      IF \E k \in 1..Len(ended) : ended[k] = t
                      THEN decomposition_method(fit[t]).model
                      ELSE s.model[t]]]

\* the outcomes of one batch of fits, one per spectrum of the list
BatchOutcomes(list) == [1..Len(list) -> FitOutcomes]

\* the outcome of the fit of each spectrum of the list
FitOf(list, o) ==
    [t \in 1..Len(indivspec) |->
        IF \E k \in 1..Len(list) : list[k] = t
        THEN o[CHOOSE k \in 1..Len(list) : list[k] = t]
        ELSE [validfit |-> FALSE, AIC |-> 0, guesses_updated |-> 0]]

\* indivspec=indivspec_list[i]
SpectrumAt(list, k) == list[k]

\* the spectrum is left in the list
NotRemoved(list, k) == list

\* indivspec_list[i]=None
Removed(list, k) == [list EXCEPT ![k] = NoneRef]

\* the guesses reduced to one at most
GuessesFew(result) == NpSize(result.guesses_updated) <= 1

\* the fit has ended without a model: the guesses reduced to zero
GuessesExhausted(result) == NpSize(result.guesses_updated) = 0

\* how the size of the guesses a failed fit returns compares to the size
\* of those the previous fit of the same spectrum returned
Trend(spec, result) ==
    IF result.model.isNone /\ spec.guesses_updated # NoneGuesses
    THEN IF result.guesses_updated > spec.guesses_updated THEN "grew"
         ELSE IF result.guesses_updated = spec.guesses_updated THEN "same"
         ELSE "decreased"
    ELSE "decreased"

Worst(a, b) ==
    IF "grew" \in {a, b} THEN "grew"
    ELSE IF "same" \in {a, b} THEN "same" ELSE "decreased"

\* setattr(indivspec,'template',None)
TemplateRemoved(spec) == [spec EXCEPT !.template = NoneTemplate]

\* the empty guesses are stored on the spectrum
ExhaustedStoring(spec, result) ==
    [spec EXCEPT !.guesses_updated = result.guesses_updated]

\* the spectrum whose guesses reduced to zero: nothing is set on it
Exhausted(spec, result) == spec

\* setattr(indivspec,'guesses_updated',guesses_updated,)
Retried(spec, result) ==
    [spec EXCEPT !.guesses_updated = result.guesses_updated]

\* individual_spectrum.add_model(indivspec, model)
add_model(spec, model) == [spec EXCEPT !.model_from_parent = Scalar(model)]

\* indivspec_list_completed.insert(0, indivspec)
Prepended(completed, ref) == <<ref>> \o completed

\* indivspec_list_completed.append(indivspec)
Appended(completed, ref) == Append(completed, ref)

\* One pass of the body of "for i, result in enumerate(results)" on the
\* state st = [indivspec, indivspec_list, indivspec_list_completed, trend].
Classify(st, result, k) ==
    LET ref == SpectrumAt(st.indivspec_list, k)
        \* remove the template
        spec == TemplateRemoved(st.indivspec[ref])
        tr == Worst(st.trend, Trend(st.indivspec[ref], result))
    IN  IF result.model.isNone
        THEN IF GuessesExhausted(result)
             THEN [indivspec |->
                       [st.indivspec EXCEPT ![ref] = Exhausted(spec, result)],
                   indivspec_list_completed |->
                       Appended(st.indivspec_list_completed, ref),
                   indivspec_list |-> Removed(st.indivspec_list, k),
                   trend |-> tr]
             ELSE [indivspec |->
                       [st.indivspec EXCEPT ![ref] = Retried(spec, result)],
                   indivspec_list_completed |-> st.indivspec_list_completed,
                   indivspec_list |-> st.indivspec_list,
                   trend |-> tr]
        ELSE [indivspec |->
                  [st.indivspec EXCEPT ![ref] =
                      add_model(spec, result.model)],
              indivspec_list_completed |->
                  Appended(st.indivspec_list_completed, ref),
              indivspec_list |-> Removed(st.indivspec_list, k),
              trend |-> tr]

RECURSIVE ForResults(_, _, _)
\* for i, result in enumerate(results), from index k on
ForResults(st, res, k) ==
    IF k > Len(res) THEN st
    ELSE ForResults(Classify(st, res[k], k), res, k + 1)

\* [indivspec for indivspec in indivspec_list if indivspec != None]
WithoutNone(list) ==
    LET NotNone(ref) == ref # NoneRef IN SelectSeq(list, NotNone)

\* the body of the while loop once the results of the batch are there
Batch(res, o) ==
    LET st == ForResults([indivspec |-> indivspec,
                          indivspec_list |-> indivspec_list,
                          indivspec_list_completed |->
                              indivspec_list_completed,
                          trend |-> "decreased"], res, 1)
    IN  /\ indivspec' = st.indivspec
        /\ indivspec_list_completed' = st.indivspec_list_completed
        /\ indivspec_list' = WithoutNone(st.indivspec_list)
        /\ trend' = st.trend
        /\ turn' = 1 - turn
        /\ serial' = SerialBatch(serial, FitOf(indivspec_list, o))
        /\ inputlist' = indivspec_list
        /\ results' = res
        /\ UNCHANGED <<saa_dict, njobs, pc, compilevars>>

\* one turn of the while loop with njobs <= 1
BatchSerial ==
    /\ pc = "while"
    /\ WhileCondition(indivspec_list)
    /\ ~(njobs > 1)
    /\ \E o \in BatchOutcomes(indivspec_list) :
         Batch(SerialMap(indivspec_list, FitOf(indivspec_list, o)), o)

\* one turn of the while loop with njobs > 1
BatchParallel ==
    /\ pc = "while"
    /\ WhileCondition(indivspec_list)
    /\ njobs > 1
    /\ \E o \in BatchOutcomes(indivspec_list) :
         \E order \in Orders(Len(indivspec_list)) :
           Batch(parallel_map(indivspec_list,
                              FitOf(indivspec_list, o), order), o)

\* return indivspec_list_completed
Return ==
    /\ pc = "while"
    /\ ~WhileCondition(indivspec_list)
    /\ pc' = "returned"
    /\ turn' = 0
    /\ inputlist' = << >>
    /\ results' = << >>
    /\ UNCHANGED <<saa_dict, njobs, indivspec, indivspec_list,
                   indivspec_list_completed, trend, serial, compilevars>>

\* ------------------------------------------------------ compile_spectra
RECURSIVE SortedDescending(_)
\* the values of the set, the greatest first
SortedDescending(S) ==
    IF S = {} THEN << >>
    ELSE LET most == CHOOSE x \in S : \A y \in S : x >= y
         IN  <<most>> \o SortedDescending(S \ {most})

\* np.sort(np.unique(indexarr)), from the set of the values
RECURSIVE Sorted(_)
Sorted(S) ==
    IF S = {} THEN << >>
    ELSE LET least == CHOOSE x \in S : \A y \in S : x <= y
         IN  <<least>> \o Sorted(S \ {least})

SortedUnique(arr) == Sorted({arr[k] : k \in 1..Len(arr)})

\* np.where(indexarr==v)[0]
Where(arr, v) ==
    LET Hit(k) == arr[k] = v
    IN  SelectSeq([k \in 1..Len(arr) |-> k], Hit)

\* indivspec.model_from_parent is None
IsNone(val) == val.d = 0 /\ val.v[1].isNone

\* indivspec.model_from_parent.AIC of a list: AttributeError
NoAttributeAIC(val) == val.d > 0

Nan == [nan |-> TRUE, val |-> 0]

\* one entry of aic_sublist_completed
AicEntry(spec) ==
    IF IsNone(spec.model_from_parent) THEN Nan
    ELSE [nan |-> FALSE, val |-> Around2(spec.model_from_parent.v[1].AIC)]

\* aic_subarr_completed[~np.isnan(aic_subarr_completed)]
NotNan(arr) ==
    LET Number(e) == ~e.nan IN SelectSeq(arr, Number)

\* the unique values in the order in which they are first seen
UniqueAsSeen(arr) ==
    LET Seen(k) == \A j \in 1..(k - 1) : arr[j].val # arr[k].val
        uniqids == SelectSeq([k \in 1..Len(arr) |-> k], Seen)
    IN  [uniqvals |-> [n \in 1..Len(uniqids) |-> arr[uniqids[n]].val],
         uniqids |-> uniqids]

\* np.unique(arr, return_index=True): the sorted unique values and, for
\* each, the index of its first occurrence in arr
NpUnique(arr) ==
    LET uniqvals == Sorted({arr[k].val : k \in 1..Len(arr)})
    IN  [uniqvals |-> uniqvals,
         uniqids |-> [n \in 1..Len(uniqvals) |->
                        CHOOSE k \in 1..Len(arr) :
                          /\ arr[k].val = uniqvals[n]
                          /\ \A j \in 1..(k - 1) : arr[j].val # uniqvals[n]]]

\* indivspec_subarr_completed[-1]
LastOf(sub) == sub[Len(sub)]

\* indivspec_subarr_completed[0]
FirstOf(sub) == sub[1]

\* every spectrum of the sublist, whatever its AIC
TakenAll(sub, ids) == sub

\* indivspec_subarr_completed[uniqids]
Taken(sub, ids) == [n \in 1..Len(ids) |-> sub[ids[n]]]

\* the three attributes set on every spectrum
SetListsOfAll(heap, ref, saa_dict_index, saaindex, model_from_parent) ==
    [t \in DOMAIN heap |->
        [heap[t] EXCEPT !.saa_dict_index = saa_dict_index,
                        !.saaindex = saaindex,
                        !.model_from_parent = model_from_parent]]

\* the three setattr calls that end each branch
SetLists(heap, ref, saa_dict_index, saaindex, model_from_parent) ==
    [heap EXCEPT ![ref] =
        [@ EXCEPT !.saa_dict_index = saa_dict_index,
                  !.saaindex = saaindex,
                  !.model_from_parent = model_from_parent]]

\* the branches that take one spectrum and wrap its attributes in lists
OneSpectrum(heap, ref) ==
    [raised |-> FALSE,
     indivspec |-> SetLists(heap, ref,
                            ListAround(heap[ref].saa_dict_index),
                            ListAround(heap[ref].saaindex),
                            ListAround(heap[ref].model_from_parent)),
     ret |-> ref]

\* compilation_method([k, indexarr, indexarr_unique, completed]) on the
\* objects heap: the objects as it leaves them, the spectrum it returns,
\* and whether it raised instead
compilation_method(heap, k, arr, unique, completed) ==
    LET idx == Where(arr, unique[k])
        sub == [n \in 1..Len(idx) |-> completed[idx[n]]]
    IN  IF Len(idx) = 1
        THEN OneSpectrum(heap, completed[idx[1]])
        ELSE IF \E n \in 1..Len(sub) :
                   /\ ~IsNone(heap[sub[n]].model_from_parent)
                   /\ NoAttributeAIC(heap[sub[n]].model_from_parent)
        THEN [raised |-> TRUE, indivspec |-> heap, ret |-> NoneRef]
        ELSE LET aic == [n \in 1..Len(sub) |-> AicEntry(heap[sub[n]])]
             IN  IF \A n \in 1..Len(aic) : aic[n].nan
                 THEN OneSpectrum(heap, FirstOf(sub))
                 ELSE LET u == NpUnique(NotNan(aic))
                          taken == Taken(sub, u.uniqids)
                      IN  [raised |-> FALSE,
                           indivspec |->
                             SetLists(heap, taken[1],
                               ListOf([n \in 1..Len(taken) |->
                                  heap[taken[n]].saa_dict_index.v[1]]),
                               ListOf([n \in 1..Len(taken) |->
                                  heap[taken[n]].saaindex.v[1]]),
                               ListOf([n \in 1..Len(taken) |->
                                  heap[taken[n]].model_from_parent.v[1]])),
                           ret |-> taken[1]]

\* key=i, the position of the result
KeyByPosition(heap, ref, k) == k - 1

\* key=indivspec.index, for the k-th result
DictKey(heap, ref, k) == heap[ref].index

\* dict[key]=val
SetItem(dict, key, val) ==
    [x \in (DOMAIN dict) \cup {key} |-> IF x = key THEN val ELSE dict[x]]

RECURSIVE Filled(_, _, _, _)
\* for i, indivspec in enumerate(results), from the k-th result on
Filled(dict, heap, res, k) ==
    IF k > Len(res) THEN dict
    ELSE Filled(SetItem(dict, DictKey(heap, res[k], k), res[k]),
                heap, res, k + 1)

\* what a mapping holds: for each key, the attributes of the spectrum
Held(dict, heap) == [x \in DOMAIN dict |-> heap[dict[x]]]

\* compile_spectra up to the building of inputlist
CompileSpectra ==
    /\ pc = "compile_spectra"
    /\ indexarr' = [k \in 1..Len(indivspec_list_completed) |->
                      indivspec[indivspec_list_completed[k]].index]
    /\ indexarr_unique' = SortedUnique(indexarr')
    /\ compiled' = << >>
    /\ i' = 1
    /\ pc' = "compilation_method"
    /\ UNCHANGED <<loopvars, indivspec, indivspec_list_completed, serial,
                   indiv_dict, ncall, first>>

\* results=[compilation_method(input) for input in inputlist], one input
CompilationMethod ==
    /\ pc = "compilation_method"
    /\ i <= Len(indexarr_unique)
    /\ LET r == compilation_method(indivspec, i, indexarr, indexarr_unique,
                                   indivspec_list_completed)
       IN  IF r.raised
           THEN /\ pc' = "AttributeError"
                /\ UNCHANGED <<indivspec, compiled, i>>
           ELSE /\ indivspec' = r.indivspec
                /\ compiled' = Append(compiled, r.ret)
                /\ i' = i + 1
                /\ pc' = pc
    /\ UNCHANGED <<loopvars, indivspec_list_completed, serial, indexarr,
                   indexarr_unique, indiv_dict, ncall, first>>

\* the dictionary of the models; compile_spectra is then called once more
\* on the same list
FillDict ==
    /\ pc = "compilation_method"
    /\ i > Len(indexarr_unique)
    /\ indiv_dict' = Filled(<< >>, indivspec, compiled, 1)
    /\ IF ncall = 1
       THEN /\ first' = Held(indiv_dict', indivspec)
            /\ ncall' = 2
            /\ pc' = "compile_spectra"
       ELSE /\ pc' = "compiled"
            /\ UNCHANGED <<first, ncall>>
    /\ UNCHANGED <<loopvars, indivspec, indivspec_list_completed, serial,
                   indexarr, indexarr_unique, compiled, i>>

\* ------------------------------------------------------------ the system
NotCompiling ==
    /\ indexarr = << >>
    /\ indexarr_unique = << >>
    /\ compiled = << >>
    /\ i = 1
    /\ indiv_dict = << >>
    /\ ncall = 1
    /\ first = << >>

Init ==
    /\ saa_dict \in SaaDicts
    /\ njobs \in {1, 2}
    /\ indivspec = << >>
    /\ indivspec_list = << >>
    /\ indivspec_list_completed = << >>
    /\ pc = "initialise_fitting"
    /\ trend = "decreased"
    /\ turn = 0
    /\ serial = [pending |-> << >>, completed |-> << >>, model |-> << >>]
    /\ inputlist = << >>
    /\ results = << >>
    /\ NotCompiling

Next ==
    \/ InitialiseFitting
    \/ BatchSerial
    \/ BatchParallel
    \/ Return

Spec == Init /\ [][Next]_vars

\* The program runs on: as long as autonomous_decomposition has not
\* returned it takes its next step.  Every step of Next changes the
\* position or the parity of the turn, and a step is possible in every
\* position but the last, so this is weak fairness of Next.
Runs ==
    /\ pc \in {"initialise_fitting", "while"}
    /\ \E p \in {"while", "returned"}, t \in {0, 1} : pc' = p /\ turn' = t

FairSpec == Spec /\ WF_<<pc, turn>>(Runs)

\* A list autonomous_decomposition returns: the spectra of the cube in any
\* order of completion, each with or without a model, the template removed.
\* A spectrum that ended after an earlier one of the list was passed over
\* has been fitted again, and holds updated guesses.
Returned(dicts, order, model) ==
    LET made == SpectraFrom(dicts, 1, gen_template)
        InFirstBatch(k) == \A j \in 1..(k - 1) : order[j] < order[j + 1]
        At(t) == CHOOSE k \in 1..Len(order) : order[k] = t
    IN  [t \in 1..Len(made) |->
            [made[t] EXCEPT
                !.template = NoneTemplate,
                !.model_from_parent = Scalar(model[t]),
                !.guesses_updated =
                    IF InFirstBatch(At(t)) THEN NoneGuesses ELSE MaxGuess]]

Models == {NoneModel} \cup {indivmodel(a) : a \in AICValues}

CompileInit ==
    /\ saa_dict \in SaaDictsOf(MaxCompleted)
    /\ njobs = 1
    /\ \E order \in Orders(Len(SpectraFrom(saa_dict, 1, gen_template))) :
         \E model \in [1..Len(order) -> Models] :
           /\ indivspec = Returned(saa_dict, order, model)
           /\ indivspec_list_completed = order
           /\ serial = [pending |-> << >>, completed |-> order,
                        model |-> model]
    /\ indivspec_list = << >>
    /\ inputlist = << >>
    /\ results = << >>
    /\ pc = "compile_spectra"
    /\ trend = "decreased"
    /\ turn = 0
    /\ NotCompiling

CompileNext ==
    \/ CompileSpectra
    \/ CompilationMethod
    \/ FillDict

CompileSpec == CompileInit /\ [][CompileNext]_vars

\* ================================================================ claims
\* the while loop of autonomous_decomposition has ended
LoopEnded == pc = "returned"

\* a spectrum is terminal: it left the list with a model, or without one
Terminal(t) ==
    /\ \E k \in 1..Len(indivspec_list_completed) :
         indivspec_list_completed[k] = t
    /\ \A k \in 1..Len(indivspec_list) : indivspec_list[k] # t

\* C1 as stated: with a fitter whose returned guesses never grow in size
\* from one fit of a spectrum to the next (they may keep their size), the
\* loop ends.
C1_NonIncreasingEnds == [](trend # "grew") => <>LoopEnded

\* C1, amended: with a fitter whose returned guesses strictly decrease in
\* size from one fit of a spectrum to the next, the loop ends, the list of
\* spectra to fit is empty and every spectrum is terminal.
C1_DecreasingEnds ==
    [](trend = "decreased") =>
        <>(/\ LoopEnded
           /\ indivspec_list = << >>
           /\ \A t \in 1..Len(indivspec) : Terminal(t))

\* the loop has ended after a spectrum was fitted again with fewer guesses
C1_Witness ==
    /\ LoopEnded
    /\ trend = "decreased"
    /\ turn = 0
    /\ \E t \in 1..Len(indivspec) :
         /\ indivspec[t].guesses_updated # NoneGuesses
         /\ indivspec[t].guesses_updated < MaxGuess
         /\ Terminal(t)

\* the number of times the spectrum t stands in a list
Count(list, t) == Cardinality({k \in 1..Len(list) : list[k] = t})

\* C2: every spectrum initialise_fitting made stands exactly once in the
\* list of spectra to fit or in the completed list, never in both, and
\* when the loop has ended the completed list holds each exactly once.
C2_NoneLostNoneDuplicated ==
    /\ \A t \in 1..Len(indivspec) :
         Count(indivspec_list, t) + Count(indivspec_list_completed, t) = 1
    /\ \A k \in 1..Len(indivspec_list) :
         indivspec_list[k] \in 1..Len(indivspec)
    /\ LoopEnded =>
         /\ Len(indivspec_list_completed) = Len(indivspec)
         /\ \A t \in 1..Len(indivspec) :
              Count(indivspec_list_completed, t) = 1

\* the loop has ended after two spectra left the list in different turns
C2_Witness ==
    /\ LoopEnded
    /\ Len(indivspec_list_completed) >= 2
    /\ \E t \in 1..Len(indivspec) :
         indivspec[t].guesses_updated # NoneGuesses

\* C9: every spectrum handed to decomposition_method, in the first turn of
\* the loop and in every later one, carries the template gen_template
\* built, and a spectrum whose template is None is terminal.
C9_TemplateAtEveryDispatch ==
    /\ \A k \in 1..Len(indivspec_list) :
         FitCall(indivspec_list[k],
                 indivspec[indivspec_list[k]]).psktemplate = gen_template
    /\ \A t \in 1..Len(indivspec) :
         indivspec[t].template = NoneTemplate => Terminal(t)

\* C10: with one job and with several, the completed list, the list still
\* to fit and the model of every spectrum are those of the same fits made
\* in series and attached each to the spectrum it was made for.
C10_SameAsInSeries ==
    pc \in {"while", "returned"} =>
        /\ indivspec_list_completed = serial.completed
        /\ indivspec_list = serial.pending
        /\ \A t \in 1..Len(indivspec) :
             indivspec[t].model_from_parent = Scalar(serial.model[t])

\* a parallel run has ended with two spectra holding different models,
\* the second of them completed first
C10_Witness ==
    /\ LoopEnded
    /\ njobs > 1
    /\ Len(indivspec_list_completed) = 2
    /\ indivspec_list_completed[1] > indivspec_list_completed[2]
    /\ indivspec[1].model_from_parent # indivspec[2].model_from_parent
    /\ ~IsNone(indivspec[1].model_from_parent)

\* ------------------------------------------------- compilation, claims
\* compile_spectra has been called once on the completed list
CompiledOnce == ncall = 2 /\ pc = "compile_spectra"

\* the candidates of the pixel p, in the order of the completed list
Candidates(p) ==
    LET OfPixel(t) == indivspec[t].index = p
    IN  SelectSeq(indivspec_list_completed, OfPixel)

\* the model the spectrum t held when it was handed to compile_spectra
ModelOf(t) == serial.model[t]

\* the candidates of the pixel p that hold a model
Modelled(p) ==
    LET Holds(t) == ~ModelOf(t).isNone IN SelectSeq(Candidates(p), Holds)

RoundedAIC(t) == Around2(ModelOf(t).AIC)

\* the rounded AIC values of the modelled candidates of the pixel p
RoundedAICs(p) ==
    {RoundedAIC(Modelled(p)[n]) : n \in 1..Len(Modelled(p))}

\* the (region, region container) pair the spectrum t was created with
PairOf(t) ==
    LET made == SpectraFrom(saa_dict, 1, gen_template)[t]
    IN  <<made.saaindex.v[1], made.saa_dict_index.v[1]>>

\* the compiled spectrum of the pixel p, its chosen model, and its lists
Representative(p) == indiv_dict[p]
ModelList(p) == indivspec[Representative(p)].model_from_parent.v
ChosenModel(p) == ModelList(p)[1]
Provenance(p) ==
    LET rep == indivspec[Representative(p)]
    IN  [n \in 1..Len(rep.saaindex.v) |->
            <<rep.saaindex.v[n], rep.saa_dict_index.v[n]>>]

\* the position, among the modelled candidates of p, of the first one
\* with the lowest rounded AIC
LowestAt(p) ==
    CHOOSE r \in 1..Len(Modelled(p)) :
        /\ \A n \in 1..Len(Modelled(p)) :
              RoundedAIC(Modelled(p)[r]) <= RoundedAIC(Modelled(p)[n])
        /\ \A n \in 1..(r - 1) :
              RoundedAIC(Modelled(p)[n]) # RoundedAIC(Modelled(p)[r])

\* C3 as stated: for a pixel with two or more candidates that hold models
\* with distinct rounded AIC values, the representative is the one of them
\* that comes first in the completed list, whatever the AIC values.
C3_FirstOccurrenceChosen ==
    CompiledOnce =>
        \A p \in DOMAIN indiv_dict :
            Cardinality(RoundedAICs(p)) >= 2 =>
                Representative(p) = Modelled(p)[1]

\* C3, amended: for such a pixel the representative is the candidate of
\* the pixel standing at the position that the first candidate with the
\* lowest rounded AIC has among the modelled candidates; when every
\* candidate of the pixel holds a model it is the first candidate with the
\* lowest rounded AIC.
C3_LowestAICPositionChosen ==
    CompiledOnce =>
        \A p \in DOMAIN indiv_dict :
            Cardinality(RoundedAICs(p)) >= 2 =>
                /\ Representative(p) = Candidates(p)[LowestAt(p)]
                /\ Len(Modelled(p)) = Len(Candidates(p)) =>
                      /\ Representative(p) = Modelled(p)[LowestAt(p)]
                      /\ \A n \in 1..Len(Modelled(p)) :
                            RoundedAIC(Representative(p))
                                <= RoundedAIC(Modelled(p)[n])

\* a pixel whose candidates all hold models, the first with a higher
\* rounded AIC than a later one, has been compiled, and the later one is
\* the representative
C3_Witness ==
    /\ CompiledOnce
    /\ \E p \in DOMAIN indiv_dict :
         /\ Len(Modelled(p)) = Len(Candidates(p))
         /\ Len(Candidates(p)) >= 2
         /\ RoundedAIC(Candidates(p)[1]) > RoundedAIC(Candidates(p)[2])
         /\ Representative(p) # Candidates(p)[1]

\* C4: when a candidate of the pixel holds a model, the chosen model of the
\* compiled spectrum is not None and every entry of its list of models is
\* the model of a modelled candidate of the pixel, in whatever order the
\* candidates with and without a model stand in the completed list.
C4_ChosenModelFromModelled ==
    CompiledOnce =>
        \A p \in DOMAIN indiv_dict :
            Len(Modelled(p)) >= 1 =>
                /\ ~ChosenModel(p).isNone
                /\ \A n \in 1..Len(ModelList(p)) :
                     \E m \in 1..Len(Modelled(p)) :
                        ModelList(p)[n] = ModelOf(Modelled(p)[m])

\* C5 as stated: when a pixel has several candidates and none holds a
\* model, the chosen model is None, the representative is the first
\* candidate and the provenance lists hold the pair of every candidate.
C5_EveryPairRecorded ==
    CompiledOnce =>
        \A p \in DOMAIN indiv_dict :
            (Len(Candidates(p)) >= 2 /\ Len(Modelled(p)) = 0) =>
                /\ ChosenModel(p).isNone
                /\ Representative(p) = Candidates(p)[1]
                /\ Provenance(p) =
                      [n \in 1..Len(Candidates(p)) |->
                          PairOf(Candidates(p)[n])]

\* C5, amended: for such a pixel the chosen model is None, the
\* representative is the first candidate, and the provenance lists and the
\* list of models have one entry, that of the first candidate.
C5_FirstPairRecorded ==
    CompiledOnce =>
        \A p \in DOMAIN indiv_dict :
            (Len(Candidates(p)) >= 2 /\ Len(Modelled(p)) = 0) =>
                /\ ChosenModel(p).isNone
                /\ Representative(p) = Candidates(p)[1]
                /\ Provenance(p) = <<PairOf(Candidates(p)[1])>>
                /\ ModelList(p) = <<NoneModel>>

\* a pixel with candidates from different SAAs, none holding a model, has
\* been compiled
C5_Witness ==
    /\ CompiledOnce
    /\ \E p \in DOMAIN indiv_dict :
         /\ Len(Candidates(p)) >= 2
         /\ Len(Modelled(p)) = 0
         /\ PairOf(Candidates(p)[1]) # PairOf(Candidates(p)[2])

\* C6: for a pixel of which one candidate at least holds a
\* model, the provenance lists and the list of models have as many entries
\* as there are distinct rounded AIC values among the modelled candidates:
\* one for two candidates whose AIC round to the same value, two for two
\* candidates whose AIC round to different values.
C6_OneEntryPerRoundedAIC ==
    CompiledOnce =>
        \A p \in DOMAIN indiv_dict :
            Len(Modelled(p)) >= 1 =>
                /\ Len(Provenance(p)) = Cardinality(RoundedAICs(p))
                /\ Len(ModelList(p)) = Cardinality(RoundedAICs(p))

\* a pixel with two modelled candidates whose AIC differ and round to the
\* same value has been compiled
C6_Witness ==
    /\ CompiledOnce
    /\ \E p \in DOMAIN indiv_dict :
         /\ Len(Modelled(p)) = 2
         /\ ModelOf(Modelled(p)[1]).AIC # ModelOf(Modelled(p)[2]).AIC
         /\ Cardinality(RoundedAICs(p)) = 1
         /\ Len(Provenance(p)) = 1

\* C7: once compile_spectra has run, the keys of indiv_dict are the
\* distinct pixel indices of the spectra of the completed list, and the
\* spectrum stored under the key k has the index k.
C7_KeysAreThePixels ==
    ncall = 2 =>
        /\ DOMAIN indiv_dict =
              {indivspec[indivspec_list_completed[k]].index :
                  k \in 1..Len(indivspec_list_completed)}
        /\ \A k \in DOMAIN indiv_dict : indivspec[indiv_dict[k]].index = k

\* a completed list with two pixels, one of them with two candidates, has
\* been compiled
C7_Witness ==
    /\ CompiledOnce
    /\ Cardinality(DOMAIN indiv_dict) = 2
    /\ \E p \in DOMAIN indiv_dict : Len(Candidates(p)) = 2

\* C8: a second call of compile_spectra on the same completed list, the
\* spectra as the first call left them, ends without an error and leaves
\* in indiv_dict the keys, chosen models, provenance lists and lists of
\* models the first call left.
C8_SecondCallSame ==
    /\ pc # "AttributeError"
    /\ pc = "compiled" => Held(indiv_dict, indivspec) = first

\* ----------------------------------------------- task generation, claims
\* initialise_fitting has returned and no spectrum has been fitted yet
Initialised == pc = "while" /\ inputlist = << >>

\* (p, j, k): the k-th pixel of the j-th SAA of the p-th SAA dictionary,
\* for the SAAs that are to be fit
FlaggedPixels ==
    UNION {UNION {{<<p, j, k>> :
                      k \in 1..Len(saa_dict[p][j].indices_flat)} :
                  j \in {n \in 1..Len(saa_dict[p]) :
                            saa_dict[p][n].to_be_fit}} :
           p \in 1..Len(saa_dict)}

\* x comes before y: by SAA dictionary, then SAA, then pixel
Before(x, y) ==
    \/ x[1] < y[1]
    \/ x[1] = y[1] /\ x[2] < y[2]
    \/ x[1] = y[1] /\ x[2] = y[2] /\ x[3] < y[3]

\* the place of x in that order
Place(x) == 1 + Cardinality({y \in FlaggedPixels : Before(y, x)})

\* the SAAs to be fit that hold the pixel px
FlaggedRegionsOf(px) ==
    {<<x[1], x[2]>> : x \in {y \in FlaggedPixels :
        saa_dict[y[1]][y[2]].indices_flat[y[3]] = px}}

BatchHandled == pc = "while" /\ inputlist # << >>

\* the spectrum t is in the list of spectra to fit
Pending(t) == \E k \in 1..Len(indivspec_list) : indivspec_list[k] = t

\* the spectrum t is in the completed list
Completed(t) ==
    \E k \in 1..Len(indivspec_list_completed) :
        indivspec_list_completed[k] = t

\* the spectra of the last batch whose result asks for another fit
ToRetry ==
    LET Again(k) == /\ results[k].model.isNone
                    /\ results[k].guesses_updated # 0
        at == SelectSeq([k \in 1..Len(results) |-> k], Again)
    IN  [n \in 1..Len(at) |-> inputlist[at[n]]]

\* C12: for every spectrum of a batch and its result [model,
\* guesses_updated]: with a model, the spectrum is in the completed list
\* with that model, whatever guesses_updated is; without a model and with
\* empty guesses_updated, it is in the completed list without a model;
\* otherwise it is in the next list of spectra to fit, guesses_updated set
\* on it.  The next list holds these spectra and no other, and the loop
\* goes on.
C12_OutcomeClassification ==
    BatchHandled =>
        /\ Len(results) = Len(inputlist)
        /\ \A k \in 1..Len(results) :
             LET t == inputlist[k]
                 model == results[k].model
                 guesses_updated == results[k].guesses_updated
             IN  IF ~model.isNone
                 THEN /\ Completed(t) /\ ~Pending(t)
                      /\ indivspec[t].model_from_parent = Scalar(model)
                 ELSE IF guesses_updated = 0
                 THEN /\ Completed(t) /\ ~Pending(t)
                      /\ indivspec[t].model_from_parent = Scalar(NoneModel)
                 ELSE /\ Pending(t) /\ ~Completed(t)
                      /\ indivspec[t].model_from_parent = Scalar(NoneModel)
                      /\ indivspec[t].guesses_updated = guesses_updated
        /\ indivspec_list = ToRetry

\* a batch has been handled in which one fit gave a model and no guesses
\* and one gave no model and guesses, the first of them for a spectrum that
\* had been fitted before
C12_Witness ==
    /\ BatchHandled
    /\ \E k \in 1..Len(results) :
         ~results[k].model.isNone /\ results[k].guesses_updated = 0
    /\ \E k \in 1..Len(results) :
         results[k].model.isNone /\ results[k].guesses_updated > 0
    /\ \E t \in 1..Len(indivspec) :
         /\ Completed(t)
         /\ ~IsNone(indivspec[t].model_from_parent)
         /\ indivspec[t].guesses_updated = MaxGuess
\* C13 as stated: every spectrum of the completed list holds a model or
\* has an empty guesses_updated (or none at all).
C13_ExhaustedSlotEmpty ==
    \A t \in 1..Len(indivspec) :
        Completed(t) =>
            \/ ~IsNone(indivspec[t].model_from_parent)
            \/ indivspec[t].guesses_updated \in {NoneGuesses, 0}

\* C13, amended: every spectrum of the completed list holds a model or
\* was completed by a fit that returned no model and empty guesses; these
\* empty guesses are not set on it, its guesses_updated is never empty: it
\* is None after a first fit, or holds the guesses its previous fit
\* returned.
C13_ExhaustedSlotKept ==
    /\ \A t \in 1..Len(indivspec) :
         /\ indivspec[t].guesses_updated # 0
         /\ Completed(t) /\ IsNone(indivspec[t].model_from_parent) =>
              \/ indivspec[t].guesses_updated = NoneGuesses
              \/ NpSize(indivspec[t].guesses_updated) >= 1
    /\ BatchHandled =>
         \A k \in 1..Len(results) :
            LET t == inputlist[k]
            IN  Completed(t) /\ IsNone(indivspec[t].model_from_parent) =>
                    /\ results[k].model.isNone
                    /\ results[k].guesses_updated = 0

\* a spectrum fitted again has been completed by a fit that returned no
\* model and empty guesses, and holds the guesses of the fit before
C13_Witness ==
    /\ BatchHandled
    /\ \E k \in 1..Len(results) :
         /\ results[k].model.isNone
         /\ results[k].guesses_updated = 0
         /\ Completed(inputlist[k])
         /\ indivspec[inputlist[k]].guesses_updated = MaxGuess
\* the parameters of the model of the SAA the spectrum t was made for
ParentParams(t) ==
    saa_dict[indivspec[t].saa_dict_index.v[1] + 1]
            [indivspec[t].saaindex.v[1] + 1].params

\* C14: the fit of a spectrum is invoked with its guesses_updated if and
\* only if these hold more than one value, and with the guesses of its
\* parent SAA otherwise (guesses_updated None, empty or of one value); the
\* guesses of the parent are passed for comparison in every invocation,
\* and a spectrum handed to a fit, a first or a later time, holds the
\* guesses of its parent, no model and its SAA indices as they were set.
C14_GuessSelection ==
    \A k \in 1..Len(indivspec_list) :
        LET t == indivspec_list[k]
            slot == indivspec[t].guesses_updated
            call == FitCall(t, indivspec[t])
        IN  /\ call.indivspec = t
            /\ call.guesses.from = "guesses_updated"
                  <=> slot \notin {NoneGuesses, 0, 1}
            /\ call.guesses.val =
                  IF slot \in {NoneGuesses, 0, 1} THEN ParentParams(t)
                  ELSE slot
            /\ call.guesses_parent = ParentParams(t)
            /\ indivspec[t].guesses_from_parent = ParentParams(t)
            /\ indivspec[t].model_from_parent = Scalar(NoneModel)
            /\ \E x \in FlaggedPixels :
                 /\ Place(x) = t
                 /\ indivspec[t].saa_dict_index = Scalar(x[1] - 1)
                 /\ indivspec[t].saaindex = Scalar(x[2] - 1)

\* two spectra are to be fitted again, one with guesses_updated of one
\* value, one with guesses_updated of more than one value
C14_Witness ==
    /\ BatchHandled
    /\ \E k \in 1..Len(indivspec_list) :
         indivspec[indivspec_list[k]].guesses_updated = 1
    /\ \E k \in 1..Len(indivspec_list) :
         /\ indivspec[indivspec_list[k]].guesses_updated > 1
         /\ FitCall(indivspec_list[k],
                     indivspec[indivspec_list[k]]).guesses.val
              # ParentParams(indivspec_list[k])
\* ---------------------------------------- compilation, further claims
\* the candidate at the position n of the pixel p is the first of the
\* candidates of p, in the order of the completed list, with its rounded AIC
FirstAchiever(p, n) ==
    /\ ~ModelOf(Candidates(p)[n]).isNone
    /\ \A j \in 1..(n - 1) :
         \/ ModelOf(Candidates(p)[j]).isNone
         \/ RoundedAIC(Candidates(p)[j]) # RoundedAIC(Candidates(p)[n])

\* C15: for a pixel with several candidates of which one at least holds a
\* model, every entry of the lists of the compiled spectrum is that of the
\* first candidate, in the order of the completed list, with its rounded
\* AIC, also when candidates without a model stand among the others.
C15_FirstAchieverKept ==
    CompiledOnce =>
        \A p \in DOMAIN indiv_dict :
            (Len(Candidates(p)) >= 2 /\ Len(Modelled(p)) >= 1) =>
                \A n \in 1..Len(Provenance(p)) :
                    \E c \in 1..Len(Candidates(p)) :
                        /\ FirstAchiever(p, c)
                        /\ Provenance(p)[n] = PairOf(Candidates(p)[c])
                        /\ ModelList(p)[n] = ModelOf(Candidates(p)[c])
\* C16: in every compiled spectrum the lists saaindex, saa_dict_index and
\* model_from_parent have one length, 1 at least; the three entries at a
\* position are those of one spectrum of the completed list, a candidate of
\* the pixel; the entries at the position 0 are those of the compiled
\* spectrum itself.
C16_ListsAligned ==
    CompiledOnce =>
        \A p \in DOMAIN indiv_dict :
            LET spec == indivspec[Representative(p)]
            IN  /\ spec.saaindex.d = 1
                /\ spec.saa_dict_index.d = 1
                /\ spec.model_from_parent.d = 1
                /\ Len(spec.saaindex.v) >= 1
                /\ Len(spec.saa_dict_index.v) = Len(spec.saaindex.v)
                /\ Len(spec.model_from_parent.v) = Len(spec.saaindex.v)
                /\ \A n \in 1..Len(spec.saaindex.v) :
                     \E c \in 1..Len(Candidates(p)) :
                        /\ <<spec.saaindex.v[n], spec.saa_dict_index.v[n]>>
                              = PairOf(Candidates(p)[c])
                        /\ spec.model_from_parent.v[n]
                              = ModelOf(Candidates(p)[c])
                /\ <<spec.saaindex.v[1], spec.saa_dict_index.v[1]>>
                      = PairOf(Representative(p))
                /\ spec.model_from_parent.v[1] = ModelOf(Representative(p))

\* a pixel has been compiled to a spectrum with two entries, of different
\* SAAs and with different models
C16_Witness ==
    /\ CompiledOnce
    /\ \E p \in DOMAIN indiv_dict :
         /\ Len(Provenance(p)) = 2
         /\ Provenance(p)[1] # Provenance(p)[2]
         /\ ModelList(p)[1] # ModelList(p)[2]
\* ---------------------------------------- the retry loop, further claims
\* the spectrum t is in the batch of fits made last
Dispatched(t) == \E k \in 1..Len(inputlist) : inputlist[k] = t

\* C17: a spectrum of the completed list is not in the list of spectra to
\* fit and its template is None; from then on no turn of the loop hands it
\* to a fit or changes its model, its guesses_updated or its template, and
\* it stays in the completed list.
C17_CompletedFrozen ==
    /\ [](\A t \in 1..Len(indivspec) :
            Completed(t) =>
                /\ ~Pending(t)
                /\ indivspec[t].template = NoneTemplate)
    /\ [][\A t \in 1..Len(indivspec) :
            Completed(t) =>
                /\ Completed(t)'
                /\ ~Pending(t)'
                /\ ~Dispatched(t)'
                /\ indivspec'[t] = indivspec[t]]_vars

\* a batch has been handled that a spectrum completed before was not in
C17_Witness ==
    /\ BatchHandled
    /\ \E t \in 1..Len(indivspec) :
         /\ Completed(t)
         /\ ~Dispatched(t)
         /\ ~IsNone(indivspec[t].model_from_parent)
    /\ \E t \in 1..Len(indivspec) :
         Dispatched(t) /\ indivspec[t].guesses_updated # NoneGuesses
\* the candidates of the pixel px as compilation_method takes them from a
\* completed list
Sublist(completed, px) ==
    LET arr == [k \in 1..Len(completed) |-> indivspec[completed[k]].index]
        idx == Where(arr, px)
    IN  [n \in 1..Len(idx) |-> completed[idx[n]]]

\* C18: every turn of the loop appends to the completed list the spectra
\* that became terminal in it, in the order they had in the list of spectra
\* to fit, and leaves the others in the list in the order they had; so the
\* first candidate compilation_method finds for a pixel is the one that
\* became terminal first, which need not be the one made first.
C18_CompletedInOrderOfEnding ==
    /\ [][pc = "while" =>
            LET Ended(t) == Completed(t)' /\ ~Completed(t)
                Kept(t) == Pending(t)'
            IN  /\ indivspec_list_completed' =
                      indivspec_list_completed
                          \o SelectSeq(indivspec_list, Ended)
                /\ indivspec_list' = SelectSeq(indivspec_list, Kept)
                /\ \A t \in 1..Len(indivspec) :
                     Pending(t) => (Ended(t) \/ Kept(t))]_vars
    /\ [](LoopEnded =>
            \A k \in 1..Len(indivspec_list_completed) :
                LET t == indivspec_list_completed[k]
                    sub == Sublist(indivspec_list_completed,
                                   indivspec[t].index)
                IN  (\A j \in 1..(k - 1) :
                        indivspec[indivspec_list_completed[j]].index
                            # indivspec[t].index)
                    => sub[1] = t)

\* the loop has ended with two candidates of one pixel, the second made
\* completed first after the first made was fitted again
C18_Witness ==
    /\ LoopEnded
    /\ indivspec_list_completed = <<2, 1>>
    /\ indivspec[1].index = indivspec[2].index
    /\ indivspec[1].guesses_updated # NoneGuesses
    /\ Sublist(indivspec_list_completed, indivspec[1].index)[1] = 2
\* ------------------------------------------ compilation, implicit claims
\* C19: for a pixel with two or more candidates that all hold models, the
\* entries of the lists of the compiled spectrum are in strictly ascending
\* order of rounded AIC, each the entry of the candidate whose model it
\* is, and the compiled spectrum is the first candidate, in the order of
\* the completed list, with the lowest rounded AIC.
C19_AscendingAIC ==
    CompiledOnce =>
        \A p \in DOMAIN indiv_dict :
            (Len(Candidates(p)) >= 2
                /\ Len(Modelled(p)) = Len(Candidates(p))) =>
                /\ \A n \in 1..Len(ModelList(p)) :
                     /\ ~ModelList(p)[n].isNone
                     /\ \E c \in 1..Len(Candidates(p)) :
                          /\ ModelList(p)[n] = ModelOf(Candidates(p)[c])
                          /\ Provenance(p)[n] = PairOf(Candidates(p)[c])
                /\ \A n \in 1..(Len(ModelList(p)) - 1) :
                     Around2(ModelList(p)[n].AIC)
                         < Around2(ModelList(p)[n + 1].AIC)
                /\ \E c \in 1..Len(Candidates(p)) :
                     /\ Representative(p) = Candidates(p)[c]
                     /\ \A j \in 1..Len(Candidates(p)) :
                          RoundedAIC(Candidates(p)[c])
                              <= RoundedAIC(Candidates(p)[j])
                     /\ \A j \in 1..(c - 1) :
                          RoundedAIC(Candidates(p)[c])
                              < RoundedAIC(Candidates(p)[j])

\* a pixel with three modelled candidates has been compiled: the first two
\* with AIC that round to one value, the third with a lower AIC
C19_Witness ==
    /\ CompiledOnce
    /\ \E p \in DOMAIN indiv_dict :
         /\ Len(Candidates(p)) = 3
         /\ Len(Modelled(p)) = 3
         /\ RoundedAIC(Candidates(p)[1]) = RoundedAIC(Candidates(p)[2])
         /\ RoundedAIC(Candidates(p)[3]) < RoundedAIC(Candidates(p)[1])
         /\ Len(ModelList(p)) = 2
         /\ Representative(p) = Candidates(p)[3]
\* the spectra as they were handed to compile_spectra
Handed == Returned(saa_dict, serial.completed, serial.model)

\* the spectrum t is the compiled spectrum of a pixel
IsRepresentative(t) == \E p \in DOMAIN indiv_dict : Representative(p) = t

\* C20: compile_spectra works on the spectra of the completed list
\* themselves: the compiled spectrum of a pixel is one of the candidates of
\* the pixel, its saaindex, saa_dict_index and model_from_parent made lists
\* and nothing else changed; every other spectrum of the completed list is
\* as it was handed over, and the completed list has the length and the
\* order it had.
C20_CompiledInPlace ==
    CompiledOnce =>
        /\ indivspec_list_completed = serial.completed
        /\ Len(indivspec) = Len(Handed)
        /\ \A p \in DOMAIN indiv_dict :
             LET t == Representative(p)
             IN  /\ \E c \in 1..Len(Candidates(p)) : Candidates(p)[c] = t
                 /\ Handed[t].saaindex.d = 0
                 /\ indivspec[t].saaindex.d = 1
                 /\ indivspec[t].saa_dict_index.d = 1
                 /\ indivspec[t].model_from_parent.d = 1
                 /\ [indivspec[t] EXCEPT
                        !.saaindex = Handed[t].saaindex,
                        !.saa_dict_index = Handed[t].saa_dict_index,
                        !.model_from_parent = Handed[t].model_from_parent]
                      = Handed[t]
        /\ \A t \in 1..Len(indivspec) :
             ~IsRepresentative(t) => indivspec[t] = Handed[t]

\* a pixel with two modelled candidates has been compiled, and the
\* candidate that is not the compiled spectrum holds its model
C20_Witness ==
    /\ CompiledOnce
    /\ \E p \in DOMAIN indiv_dict :
         \E c \in 1..Len(Candidates(p)) :
            /\ Len(Modelled(p)) >= 2
            /\ ~IsRepresentative(Candidates(p)[c])
            /\ indivspec[Candidates(p)[c]].model_from_parent.d = 0
            /\ ~IsNone(indivspec[Candidates(p)[c]].model_from_parent)

====
